---- MODULE Spec2Model ----
(***************************************************************************)
(* The generic transition-table engine of richardbowden/statemachine:      *)
(* StateMachine[S, E] with its map-of-maps table, the registration calls   *)
(* AddTransition / AddTransitions and the query methods.                   *)
(*                                                                         *)
(* A Go map is modelled as a TLA+ function whose DOMAIN is the key set of  *)
(* the map; "key absent" is "key not in DOMAIN".  A Go error is modelled   *)
(* as the fmt.Errorf call that built it (format string and arguments), so  *)
(* that what an error reports can be read back from it; nil is the error   *)
(* value for "no error".  Map iteration order is unspecified in Go, so a   *)
(* method that ranges over a map has a set of possible results.            *)
(***************************************************************************)
EXTENDS Integers, Sequences, FiniteSets, TLC

\* ---------------------------------------------------------------- bounds
\* number of distinct (From, Event, To) triples ever passed to a registration
MaxSupplied == 3
\* longest event sequence passed to ValidateTransitionPath
MaxPathLen == 3
\* longest slice passed to AddTransitions
MaxBatch == 2
\* number of events a service processes for its entity
MaxEvents == 4
\* longest event sequence a concurrent caller passes to ValidateTransitionPath
MaxSharedPathLen == 2
\* number of AddTransition calls made on each of two machines built alike
MaxRegistrations == 2

\* ------------------------------------------------------- state / event types
\* `var zero S` for a string-backed state type
Zero == ""
\* S: the caller's state vocabulary (the zero value is a legal state value)
States == {Zero, "A", "B"}
\* E: the caller's event vocabulary
Events == {"e1", "e2"}
\* String() of a string-backed state or event type: return string(s)
String(x) == x

\* Transition[S, E]: one transition rule
TransitionRules == [From : States, Event : Events, To : States]

\* ------------------------------------------------------------- Go builtins
\* make(map[K]V)
EmptyMap == [k \in {} |-> k]
\* m[k] = v
MapPut(m, k, v) == [x \in (DOMAIN m) \cup {k} |-> IF x = k THEN v ELSE m[x]]
\* delete(m, k)
MapDelete(m, k) == [x \in (DOMAIN m) \ {k} |-> m[x]]
\* the nil error
nil == [format |-> "<nil>", args |-> <<>>]
\* fmt.Errorf(format, args...)
Errorf(format, args) == [format |-> format, args |-> args]
\* every order in which `for k := range m` can visit the key set ks
RECURSIVE RangeOrders(_)
RangeOrders(ks) ==
    IF ks = {} THEN {<<>>}
    ELSE UNION {{<<k>> \o rest : rest \in RangeOrders(ks \ {k})} : k \in ks}
\* the elements of a slice
Elems(s) == {s[i] : i \in 1..Len(s)}

\* ------------------------------------------------------------ program state
VARIABLES
    transitions,  \* StateMachine.transitions : map[S]map[E]S
    call,         \* the last call made on the machine: op, args, ret
    supplied,     \* history: every rule ever passed to a registration call
    latest,       \* history: (From, Event) -> the To most recently passed for it
    entity        \* the entity a service keeps a state for (Order, User): its State
                  \* field and the log of the events the service processed for it

vars == <<transitions, call, supplied, latest, entity>>

\* the engine itself holds no current state of any entity
NoEntity == [State |-> Zero, log |-> <<>>]

\* NewStateMachine: transitions: make(map[S]map[E]S)
NewStateMachine == EmptyMap

\* ------------------------------------------------------------- registration
\* faulty variant: an existing (from, event) entry is kept instead of overwritten
AddTransition_KeepsFirst(sm, from, event, to) ==
    IF from \in DOMAIN sm /\ event \in DOMAIN sm[from]
    THEN sm
    ELSE LET sm1 == IF from \notin DOMAIN sm THEN MapPut(sm, from, EmptyMap) ELSE sm
         IN  MapPut(sm1, from, MapPut(sm1[from], event, to))

\* faulty variant: the inner map is made afresh on every call, not only when it is nil
AddTransition_FreshInner(sm, from, event, to) ==
    MapPut(sm, from, MapPut(EmptyMap, event, to))

AddTransition(sm, from, event, to) ==
    LET sm1 == IF from \notin DOMAIN sm THEN MapPut(sm, from, EmptyMap) ELSE sm
    IN  MapPut(sm1, from, MapPut(sm1[from], event, to))

\* faulty variant: the slice is applied from its last element to its first
RECURSIVE AddTransitions_Reversed(_, _)
AddTransitions_Reversed(sm, ts) ==
    IF ts = <<>> THEN sm
    ELSE AddTransition(AddTransitions_Reversed(sm, Tail(ts)),
                       Head(ts).From, Head(ts).Event, Head(ts).To)

RECURSIVE AddTransitions(_, _)
AddTransitions(sm, ts) ==
    IF ts = <<>> THEN sm
    ELSE AddTransitions(AddTransition(sm, Head(ts).From, Head(ts).Event, Head(ts).To),
                        Tail(ts))

\* --------------------------------------------------------------- queries
\* faulty variant: reports `exists` of the outer lookup, never looking the event up
CanTransition_SourceOnly(sm, from, event) ==
    from \in DOMAIN sm

CanTransition(sm, from, event) ==
    IF from \in DOMAIN sm
    THEN event \in DOMAIN sm[from]
    ELSE FALSE

\* faulty variant: the two arguments of the error message are passed in the wrong order
Transition_SwappedArgs(sm, from, event) ==
    IF from \in DOMAIN sm /\ event \in DOMAIN sm[from]
    THEN [state |-> sm[from][event], err |-> nil]
    ELSE [state |-> Zero,
          err |-> Errorf("invalid transition: cannot process event '%s' from state '%s'",
                         <<String(from), String(event)>>)]

Transition(sm, from, event) ==
    IF from \in DOMAIN sm /\ event \in DOMAIN sm[from]
    THEN [state |-> sm[from][event], err |-> nil]
    ELSE [state |-> Zero,
          err |-> Errorf("invalid transition: cannot process event '%s' from state '%s'",
                         <<String(event), String(from)>>)]

GetNextState(sm, from, event) ==
    IF from \in DOMAIN sm /\ event \in DOMAIN sm[from]
    THEN [state |-> sm[from][event], ok |-> TRUE]
    ELSE [state |-> Zero, ok |-> FALSE]

\* faulty variant: ranges over the events of every source, not only those of `from`
GetValidEvents_AnySource(sm, from) ==
    IF from \in DOMAIN sm
    THEN RangeOrders(UNION {DOMAIN sm[s] : s \in DOMAIN sm})
    ELSE {<<>>}

\* the slices GetValidEvents can return (one per iteration order of the map)
GetValidEvents(sm, from) ==
    IF from \in DOMAIN sm
    THEN RangeOrders(DOMAIN sm[from])
    ELSE {<<>>}

\* faulty variant: `exists && len(transitions) == 0`, an unknown state is not terminal
IsTerminalState_KnownOnly(sm, state) ==
    LET exists == state \in DOMAIN sm
    IN  exists /\ Cardinality(DOMAIN sm[state]) = 0

IsTerminalState(sm, state) ==
    LET exists == state \in DOMAIN sm
    IN  ~exists \/ Cardinality(DOMAIN sm[state]) = 0

\* faulty variant: the error reports the loop index i, not i+1
RECURSIVE ValidateFrom_ZeroBased(_, _, _, _)
ValidateFrom_ZeroBased(sm, currentState, events, i) ==
    IF i >= Len(events) THEN [state |-> currentState, err |-> nil]
    ELSE LET r == Transition(sm, currentState, events[i + 1])
         IN  IF r.err # nil
             THEN [state |-> currentState,
                   err |-> Errorf("invalid path at step %d: %w", <<i, r.err>>)]
             ELSE ValidateFrom_ZeroBased(sm, r.state, events, i + 1)

\* faulty variant: on failure returns newState (the zero value), not currentState
RECURSIVE ValidateFrom_ReturnsNew(_, _, _, _)
ValidateFrom_ReturnsNew(sm, currentState, events, i) ==
    IF i >= Len(events) THEN [state |-> currentState, err |-> nil]
    ELSE LET r == Transition(sm, currentState, events[i + 1])
         IN  IF r.err # nil
             THEN [state |-> r.state,
                   err |-> Errorf("invalid path at step %d: %w", <<i + 1, r.err>>)]
             ELSE ValidateFrom_ReturnsNew(sm, r.state, events, i + 1)

\* the loop of ValidateTransitionPath from Go index i (0-based) on
\* faulty variant: the error reports len(events), not i+1
RECURSIVE ValidateFrom_ReportsLength(_, _, _, _)
ValidateFrom_ReportsLength(sm, currentState, events, i) ==
    IF i >= Len(events) THEN [state |-> currentState, err |-> nil]
    ELSE LET r == Transition(sm, currentState, events[i + 1])
         IN  IF r.err # nil
             THEN [state |-> currentState,
                   err |-> Errorf("invalid path at step %d: %w", <<Len(events), r.err>>)]
             ELSE ValidateFrom_ReportsLength(sm, r.state, events, i + 1)

RECURSIVE ValidateFrom(_, _, _, _)
ValidateFrom(sm, currentState, events, i) ==
    IF i >= Len(events) THEN [state |-> currentState, err |-> nil]
    ELSE LET r == Transition(sm, currentState, events[i + 1])
         IN  IF r.err # nil
             THEN [state |-> currentState,
                   err |-> Errorf("invalid path at step %d: %w", <<i + 1, r.err>>)]
             ELSE ValidateFrom(sm, r.state, events, i + 1)

\* faulty variant: the start state is looked up before the loop, so a path
\* from a state without edges fails even when it holds no event
ValidateTransitionPath_ChecksStart(sm, start, events) ==
    IF start \notin DOMAIN sm
    THEN [state |-> Zero,
          err |-> Errorf("invalid path at step %d: %w",
                         <<0, Errorf("unknown state '%s'", <<String(start)>>)>>)]
    ELSE ValidateFrom(sm, start, events, 0)

ValidateTransitionPath(sm, start, events) == ValidateFrom(sm, start, events, 0)

\* faulty variant: appends without consulting `seen`
AppendUnseen_NoCheck(acc, x) ==
    [states |-> Append(acc.states, x), seen |-> acc.seen \cup {x}]

\* GetAllStates: `if !seen[x] { states = append(states, x); seen[x] = true }`
AppendUnseen(acc, x) ==
    IF x \notin acc.seen
    THEN [states |-> Append(acc.states, x), seen |-> acc.seen \cup {x}]
    ELSE acc

\* faulty variant: the inner loop is missing, only sources are collected
AppendTargets_SourcesOnly(acc, m, es) == acc

\* GetAllStates: the inner loop `for _, to := range sm.transitions[from]`,
\* visiting the events of the inner map m in the order es
RECURSIVE AppendTargets(_, _, _)
AppendTargets(acc, m, es) ==
    IF es = <<>> THEN acc
    ELSE AppendTargets(AppendUnseen(acc, m[Head(es)]), m, Tail(es))

\* GetAllStates: the outer loop over the sources not yet visited
RECURSIVE GetAllStatesLoop(_, _, _)
GetAllStatesLoop(sm, acc, left) ==
    IF left = {} THEN {acc.states}
    ELSE UNION {UNION {GetAllStatesLoop(sm,
                                        AppendTargets(AppendUnseen(acc, from), sm[from], es),
                                        left \ {from})
                       : es \in RangeOrders(DOMAIN sm[from])}
                : from \in left}

\* the slices GetAllStates can return (one per iteration order of the maps)
GetAllStates(sm) == GetAllStatesLoop(sm, [states |-> <<>>, seen |-> {}], DOMAIN sm)

\* A Go map value is a reference.  The reference GetTransitions hands out is
\* either to a map made by make() inside the call, which only the caller
\* holds, or to the inner map the table keeps for a source.
MadeByCall == [inner |-> FALSE, of |-> Zero]
InnerMapOf(from) == [inner |-> TRUE, of |-> from]
\* a returned map: what it refers to, its entries, whether the caller wrote to it
MapResult(ref, m) == [ref |-> ref, m |-> m, written |-> FALSE]

\* faulty variant: `return transitions`, the inner map itself is handed out
GetTransitions_ReturnsInner(sm, from) ==
    IF from \in DOMAIN sm
    THEN MapResult(InnerMapOf(from), sm[from])
    ELSE MapResult(MadeByCall, EmptyMap)

\* GetTransitions: a map made by the call, holding the entries of sm.transitions[from]
GetTransitions(sm, from) ==
    IF from \in DOMAIN sm
    THEN MapResult(MadeByCall, [k \in DOMAIN sm[from] |-> sm[from][k]])
    ELSE MapResult(MadeByCall, EmptyMap)

\* ------------------------------------------------------------ call inputs
\* the event sequences a caller passes to ValidateTransitionPath
Paths == UNION {[1..n -> Events] : n \in 0..MaxPathLen}

\* the rules a caller may still pass without exceeding MaxSupplied
Allowed(sup) == {t \in TransitionRules : Cardinality(sup \cup {t}) <= MaxSupplied}

\* the slices of at most n rules a caller may pass to AddTransitions
RECURSIVE Batches(_, _)
Batches(sup, n) ==
    IF n = 0 THEN {<<>>}
    ELSE {<<>>} \cup UNION {{<<t>> \o b : b \in Batches(sup \cup {t}, n - 1)}
                            : t \in Allowed(sup)}

\* history of registrations: the last To passed for each (From, Event)
RECURSIVE Latest(_, _)
Latest(la, ts) ==
    IF ts = <<>> THEN la
    ELSE Latest(MapPut(la, <<Head(ts).From, Head(ts).Event>>, Head(ts).To), Tail(ts))

\* a call on the machine that has returned ret to its caller
Called(op, args, ret) == [op |-> op, args |-> args, ret |-> ret]
\* the caller holds no result: it is between two calls
Idle == Called("idle", <<>>, <<>>)

\* ------------------------------------------------------------------ actions
Init ==
    /\ transitions = NewStateMachine
    /\ call = Called("NewStateMachine", <<>>, <<>>)
    /\ supplied = {}
    /\ latest = EmptyMap
    /\ entity = NoEntity

CallAddTransition ==
    /\ call = Idle
    /\ \E t \in Allowed(supplied) :
        /\ transitions' = AddTransition(transitions, t.From, t.Event, t.To)
        /\ call' = Called("AddTransition", <<t.From, t.Event, t.To>>, <<>>)
        /\ supplied' = supplied \cup {t}
        /\ latest' = Latest(latest, <<t>>)
        /\ UNCHANGED entity

CallAddTransitions ==
    /\ call = Idle
    /\ \E ts \in Batches(supplied, MaxBatch) :
        /\ transitions' = AddTransitions(transitions, ts)
        /\ call' = Called("AddTransitions", <<ts>>, <<>>)
        /\ supplied' = supplied \cup Elems(ts)
        /\ latest' = Latest(latest, ts)
        /\ UNCHANGED entity

CallCanTransition ==
    /\ call = Idle
    /\ \E from \in States, event \in Events :
        /\ call' = Called("CanTransition", <<from, event>>,
                          CanTransition(transitions, from, event))
        /\ UNCHANGED <<transitions, supplied, latest, entity>>

\* faulty variant: the lookup makes the inner map of an unknown source, as
\* AddTransition does
CallTransition_MakesInner ==
    /\ call = Idle
    /\ \E from \in States, event \in Events :
        /\ call' = Called("Transition", <<from, event>>,
                          Transition(transitions, from, event))
        /\ transitions' = IF from \notin DOMAIN transitions
                          THEN MapPut(transitions, from, EmptyMap)
                          ELSE transitions
        /\ UNCHANGED <<supplied, latest, entity>>

CallTransition ==
    /\ call = Idle
    /\ \E from \in States, event \in Events :
        /\ call' = Called("Transition", <<from, event>>,
                          Transition(transitions, from, event))
        /\ UNCHANGED <<transitions, supplied, latest, entity>>

CallGetNextState ==
    /\ call = Idle
    /\ \E from \in States, event \in Events :
        /\ call' = Called("GetNextState", <<from, event>>,
                          GetNextState(transitions, from, event))
        /\ UNCHANGED <<transitions, supplied, latest, entity>>

CallGetValidEvents ==
    /\ call = Idle
    /\ \E from \in States :
        \E r \in GetValidEvents(transitions, from) :
            /\ call' = Called("GetValidEvents", <<from>>, r)
            /\ UNCHANGED <<transitions, supplied, latest, entity>>

CallIsTerminalState ==
    /\ call = Idle
    /\ \E state \in States :
        /\ call' = Called("IsTerminalState", <<state>>,
                          IsTerminalState(transitions, state))
        /\ UNCHANGED <<transitions, supplied, latest, entity>>

CallValidateTransitionPath ==
    /\ call = Idle
    /\ \E start \in States, events \in Paths :
        /\ call' = Called("ValidateTransitionPath", <<start, events>>,
                          ValidateTransitionPath(transitions, start, events))
        /\ UNCHANGED <<transitions, supplied, latest, entity>>

CallGetAllStates ==
    /\ call = Idle
    /\ \E r \in GetAllStates(transitions) :
        /\ call' = Called("GetAllStates", <<>>, r)
        /\ UNCHANGED <<transitions, supplied, latest, entity>>

CallGetTransitions ==
    /\ call = Idle
    /\ \E from \in States :
        /\ call' = Called("GetTransitions", <<from>>, GetTransitions(transitions, from))
        /\ UNCHANGED <<transitions, supplied, latest, entity>>

\* the effect on the machine of a caller's write through the map reference ref,
\* leaving the referenced map with the entries m
WriteThrough(sm, ref, m) ==
    IF ref.inner THEN MapPut(sm, ref.of, m) ELSE sm

\* the caller of GetTransitions writes to the map it was handed:
\* result[event] = state, or delete(result, event)
CallerWritesResult ==
    /\ call.op = "GetTransitions"
    /\ \E event \in Events :
          \E m \in {MapPut(call.ret.m, event, state) : state \in States}
                       \cup {MapDelete(call.ret.m, event)} :
              /\ m # call.ret.m
              /\ call' = [call EXCEPT !.ret.m = m, !.ret.written = TRUE]
              /\ transitions' = WriteThrough(transitions, call.ret.ref, m)
              /\ UNCHANGED <<supplied, latest, entity>>

\* the caller is done with the result of its last call (the engine is synchronous
\* and single-threaded: one call at a time, each returning before the next)
Return ==
    /\ call # Idle
    /\ call' = Idle
    /\ UNCHANGED <<transitions, supplied, latest, entity>>

Next ==
    \/ CallAddTransition
    \/ CallAddTransitions
    \/ CallCanTransition
    \/ CallTransition
    \/ CallGetNextState
    \/ CallGetValidEvents
    \/ CallIsTerminalState
    \/ CallValidateTransitionPath
    \/ CallGetAllStates
    \/ CallGetTransitions
    \/ CallerWritesResult
    \/ Return

Spec == Init /\ [][Next]_vars

\* ------------------------------------------------------- reading the state
\* (from, event) was passed to some registration call
EverRegistered(from, event) ==
    \E t \in supplied : t.From = from /\ t.Event = event

\* the edges the table holds, as (from, event, to) triples
Edges(sm) == {<<from, event, sm[from][event]>> : <<from, event>> \in
                 {k \in States \X Events : k[1] \in DOMAIN sm /\ k[2] \in DOMAIN sm[k[1]]}}

\* the step that ends in call c registers the key (from, event)
Registers(c, from, event) ==
    \/ /\ c.op = "AddTransition"
       /\ c.args[1] = from
       /\ c.args[2] = event
    \/ /\ c.op = "AddTransitions"
       /\ \E i \in 1..Len(c.args[1]) :
             c.args[1][i].From = from /\ c.args[1][i].Event = event

\* ------------------------------------------------------------------ C1
\* C1: in every reachable table state and for every (from, event), the three
\* lookups agree: CanTransition is true iff Transition returns no error iff
\* GetNextState reports found, on a hit Transition and GetNextState return the
\* same destination, and a pair that was never registered misses in all three.
\* (Stated of each CanTransition call: every pair is called in every table state.)
LookupsAgree ==
    call.op = "CanTransition" =>
        LET from  == call.args[1]
            event == call.args[2]
            can   == call.ret
            tr    == Transition(transitions, from, event)
            nx    == GetNextState(transitions, from, event)
        IN  /\ can <=> (tr.err = nil)
            /\ can <=> nx.ok
            /\ can => tr.state = nx.state
            /\ ~EverRegistered(from, event) => (~can /\ tr.err # nil /\ ~nx.ok)

\* a CanTransition call has just missed on a source that has edges, but none for
\* the event, while another source has no edges at all and a third pair hits
LookupsAgreeWitness ==
    /\ call.op = "CanTransition"
    /\ call.ret = FALSE
    /\ call.args[1] \in DOMAIN transitions
    /\ ~EverRegistered(call.args[1], call.args[2])
    /\ \E s \in States : s \notin DOMAIN transitions
    /\ \E s \in States, e \in Events : GetNextState(transitions, s, e).ok

\* ------------------------------------------------------------------ C2
\* C2: last write wins: for every key (s, e) ever registered, Transition(s, e)
\* returns the destination most recently passed for it, with no error, and
\* CanTransition(s, e) is true; after every registration the table holds exactly
\* one edge per registered key, the one most recently passed.
LastWriteWins ==
    /\ (call.op = "Transition" /\ EverRegistered(call.args[1], call.args[2])) =>
          /\ call.ret = [state |-> latest[<<call.args[1], call.args[2]>>], err |-> nil]
          /\ CanTransition(transitions, call.args[1], call.args[2])
    /\ call.op \in {"AddTransition", "AddTransitions"} =>
          /\ Cardinality(Edges(transitions)) = Cardinality(DOMAIN latest)
          /\ \A x \in Edges(transitions) : latest[<<x[1], x[2]>>] = x[3]

\* a key was registered with two destinations, another key was registered too,
\* and a Transition call on the first key has just returned the later destination
LastWriteWinsWitness ==
    /\ call.op = "Transition"
    /\ call.ret.err = nil
    /\ \E t1, t2, t3 \in supplied :
          /\ t1.From = call.args[1] /\ t1.Event = call.args[2]
          /\ t2.From = call.args[1] /\ t2.Event = call.args[2]
          /\ t1.To # t2.To
          /\ <<t3.From, t3.Event>> # <<t1.From, t1.Event>>
          /\ call.ret.state = latest[<<t1.From, t1.Event>>]

\* ------------------------------------------------------------------ C3
\* C3: determinism: for every registered (from, event), Transition(from, event)
\* returns the same result after every step that is not a registration of that
\* same key: queries and registrations of other keys leave it unchanged.
Determinism ==
    [][\A from \in States, event \in Events :
          (CanTransition(transitions, from, event) /\ ~Registers(call', from, event))
              => Transition(transitions', from, event) = Transition(transitions, from, event)]_vars

\* an AddTransition call has just registered a key while another key of the
\* same source was already registered and still has its destination
DeterminismWitness ==
    /\ call.op = "AddTransition"
    /\ \E k \in DOMAIN latest :
          /\ k[1] = call.args[1]
          /\ k[2] # call.args[2]
          /\ Transition(transitions, k[1], k[2]).state = latest[k]
          /\ Transition(transitions, k[1], k[2]).err = nil

\* ------------------------------------------------------------- C4, C5
\* the left fold of Transition over the first n events, from s0
RECURSIVE FoldState(_, _, _, _)
FoldState(sm, s0, events, n) ==
    IF n = 0 THEN s0
    ELSE Transition(sm, FoldState(sm, s0, events, n - 1), events[n]).state

\* step i of the fold succeeds: the lookup from the then-current state hits
StepOk(sm, s0, events, i) ==
    Transition(sm, FoldState(sm, s0, events, i - 1), events[i]).err = nil

\* the 1-based position of the first step that misses, 0 when every step hits
FirstMiss(sm, s0, events) ==
    LET miss == {i \in 1..Len(events) :
                    /\ \A j \in 1..(i - 1) : StepOk(sm, s0, events, j)
                    /\ ~StepOk(sm, s0, events, i)}
    IN  IF miss = {} THEN 0 ELSE CHOOSE i \in miss : TRUE

\* C4: path fold correctness: ValidateTransitionPath(s0, events) returns no error
\* iff every step of the left fold of Transition succeeds, and then returns the
\* folded state; on failure the step number in the error is the 1-based position
\* of the first missing step, and the events after it do not influence the result.
PathFoldCorrect ==
    call.op = "ValidateTransitionPath" =>
        LET s0     == call.args[1]
            events == call.args[2]
            r      == call.ret
            k      == FirstMiss(transitions, s0, events)
        IN  /\ (r.err = nil) <=> (\A i \in 1..Len(events) : StepOk(transitions, s0, events, i))
            /\ (r.err = nil) <=> (k = 0)
            /\ r.err = nil => r.state = FoldState(transitions, s0, events, Len(events))
            /\ r.err # nil =>
                  /\ r.err.format = "invalid path at step %d: %w"
                  /\ r.err.args[1] = k
                  /\ \A other \in Paths :
                        (Len(other) >= k /\ SubSeq(other, 1, k) = SubSeq(events, 1, k))
                            => ValidateTransitionPath(transitions, s0, other) = r

\* a three-event path has just failed at its second step, and the table has an
\* edge for the third event from some state
PathFoldWitness ==
    /\ call.op = "ValidateTransitionPath"
    /\ Len(call.args[2]) = 3
    /\ call.ret.err # nil
    /\ call.ret.err.args[1] = 2
    /\ \E s \in States : CanTransition(transitions, s, call.args[2][3])

\* C5: when ValidateTransitionPath(start, events) fails at step k, the state it
\* returns is the state reached by the first k-1 events (start when k = 1), the
\* error it wraps is the Transition error of that state and events[k], naming
\* exactly that event and that state, and nothing but this first failure is reported.
PathErrorIdentifies ==
    (call.op = "ValidateTransitionPath" /\ call.ret.err # nil) =>
        LET s0      == call.args[1]
            events  == call.args[2]
            r       == call.ret
            k       == FirstMiss(transitions, s0, events)
            failing == FoldState(transitions, s0, events, k - 1)
        IN  /\ k \in 1..Len(events)
            /\ r.state = failing
            /\ k = 1 => r.state = s0
            /\ ~CanTransition(transitions, failing, events[k])
            /\ Len(r.err.args) = 2
            /\ r.err.args[2] = Transition(transitions, failing, events[k]).err
            /\ r.err.args[2].format =
                   "invalid transition: cannot process event '%s' from state '%s'"
            /\ r.err.args[2].args = <<String(events[k]), String(failing)>>

\* a path has just failed at a step after the first, in a state that is neither
\* the start state nor the zero value
PathErrorWitness ==
    /\ call.op = "ValidateTransitionPath"
    /\ call.ret.err # nil
    /\ call.ret.err.args[1] >= 2
    /\ call.ret.state # call.args[1]
    /\ call.ret.state # Zero

\* ------------------------------------------------------------------ C6
\* C6: Transition(from, event) on a miss fails with an error that names exactly
\* the event and the from state passed, both when the source has no edges and
\* when it has edges but none for the event; on a hit it returns the registered
\* destination with no error.
TransitionResult ==
    call.op = "Transition" =>
        LET from  == call.args[1]
            event == call.args[2]
            r     == call.ret
        IN  IF EverRegistered(from, event)
            THEN r = [state |-> latest[<<from, event>>], err |-> nil]
            ELSE /\ r.err # nil
                 /\ r.err.format =
                        "invalid transition: cannot process event '%s' from state '%s'"
                 /\ r.err.args = <<String(event), String(from)>>
                 /\ \A f2 \in States, e2 \in Events :
                       Transition(transitions, f2, e2).err = r.err
                           => (f2 = from /\ e2 = event)

\* a Transition call has just missed on a source that has edges but none for the
\* event, while a source with no edges at all misses too and some pair hits
TransitionResultWitness ==
    /\ call.op = "Transition"
    /\ call.ret.err # nil
    /\ call.args[1] \in DOMAIN transitions
    /\ \E s \in States, e \in Events :
          s \notin DOMAIN transitions /\ Transition(transitions, s, e).err # nil
    /\ \E s \in States, e \in Events : Transition(transitions, s, e).err = nil

\* ------------------------------------------------------------------ C7
\* C7: terminal correctness: for every state s, used in a registration or not,
\* IsTerminalState(s) is true iff no event e has CanTransition(s, e), and iff
\* GetValidEvents(s) is empty.
TerminalCorrect ==
    call.op = "IsTerminalState" =>
        LET s == call.args[1]
        IN  /\ call.ret <=> (\A e \in Events : ~CanTransition(transitions, s, e))
            /\ call.ret <=> (\A r \in GetValidEvents(transitions, s) : r = <<>>)

\* IsTerminalState has just returned true for a state that is only a
\* destination, while another state was never used in any registration and a
\* third one is not terminal
TerminalWitness ==
    /\ call.op = "IsTerminalState"
    /\ call.ret = TRUE
    /\ \E t \in supplied : t.To = call.args[1]
    /\ \A t \in supplied : t.From # call.args[1]
    /\ \E s \in States : \A t \in supplied : t.From # s /\ t.To # s
    /\ \E s \in States : ~IsTerminalState(transitions, s)

\* ------------------------------------------------------------------ C8
\* C8: every slice GetValidEvents(from) can return holds exactly the events e
\* with CanTransition(from, e), each once, and is empty when from is terminal
\* or unknown.
ValidEventsExact ==
    call.op = "GetValidEvents" =>
        LET from == call.args[1]
            r    == call.ret
        IN  /\ Elems(r) = {e \in Events : CanTransition(transitions, from, e)}
            /\ Len(r) = Cardinality(Elems(r))
            /\ (IsTerminalState(transitions, from) \/ from \notin DOMAIN transitions)
                  => r = <<>>

\* GetValidEvents has just returned one event for a source while another source
\* has an edge for a different event
ValidEventsWitness ==
    /\ call.op = "GetValidEvents"
    /\ Len(call.ret) = 1
    /\ \E s \in States, e \in Events :
          /\ s # call.args[1]
          /\ e # call.ret[1]
          /\ CanTransition(transitions, s, e)

\* ------------------------------------------------------------- C9, C10
\* the states that are the source or the destination of an edge in the table
StatesOfEdges ==
    {s \in States : \E e \in Events : CanTransition(transitions, s, e)}
        \cup {GetNextState(transitions, k[1], k[2]).state :
                 k \in {x \in States \X Events : CanTransition(transitions, x[1], x[2])}}

\* C9: every slice GetAllStates() can return holds exactly the states that are
\* the source or the destination of an edge currently in the table, none twice;
\* a state in no current edge is absent.
AllStatesExact ==
    call.op = "GetAllStates" =>
        /\ Elems(call.ret) = StatesOfEdges
        /\ Len(call.ret) = Cardinality(Elems(call.ret))
        /\ \A s \in States :
              (\A x \in Edges(transitions) : x[1] # s /\ x[3] # s) => s \notin Elems(call.ret)

\* GetAllStates has just returned while some state is both a source and a
\* destination, some state is the destination of two edges, and some state is
\* in no edge
AllStatesWitness ==
    /\ call.op = "GetAllStates"
    /\ \E x, y \in Edges(transitions) : x[1] = y[3]
    /\ \E x, y \in Edges(transitions) : x # y /\ x[3] = y[3]
    /\ \E s \in States : s \notin Elems(call.ret)

\* C10: every state that was passed as From or as To to a registration call is
\* in the result of GetAllStates().
AllSuppliedStatesListed ==
    call.op = "GetAllStates" =>
        \A t \in supplied : t.From \in Elems(call.ret) /\ t.To \in Elems(call.ret)

\* ------------------------------------------------------------------ C11
\* what every query answers on the table sm
Answers(sm) ==
    [can      |-> [k \in States \X Events |-> CanTransition(sm, k[1], k[2])],
     tr       |-> [k \in States \X Events |-> Transition(sm, k[1], k[2])],
     next     |-> [k \in States \X Events |-> GetNextState(sm, k[1], k[2])],
     events   |-> [s \in States |-> GetValidEvents(sm, s)],
     terminal |-> [s \in States |-> IsTerminalState(sm, s)],
     all      |-> GetAllStates(sm),
     from     |-> [s \in States |-> GetTransitions(sm, s).m]]

\* the outgoing edges of from, as the lookups report them
OutgoingEdges(sm, from) ==
    [e \in {x \in Events : CanTransition(sm, from, x)} |-> GetNextState(sm, from, e).state]

\* C11: GetTransitions(from) returns a map equal to the current outgoing edges of
\* from (empty when it has none), and the map is a defensive copy: a caller's
\* adding, changing or deleting entries of it changes the answer of no later
\* CanTransition, Transition, GetNextState, GetValidEvents, IsTerminalState,
\* GetAllStates or GetTransitions call.
DefensiveCopy ==
    [][/\ (call = Idle /\ call'.op = "GetTransitions")
             => /\ call'.ret.m = OutgoingEdges(transitions', call'.args[1])
                /\ IsTerminalState(transitions', call'.args[1]) => call'.ret.m = EmptyMap
       /\ (call.op = "GetTransitions" /\ call'.op = "GetTransitions")
             => \/ transitions' = transitions    \* one table, one set of answers
                \/ Answers(transitions') = Answers(transitions)]_vars

\* the caller has written to the map GetTransitions returned for a source with
\* edges, the map now differs from the edges of that source, and the table
\* still has them
DefensiveCopyWitness ==
    /\ call.op = "GetTransitions"
    /\ call.ret.written
    /\ call.args[1] \in DOMAIN transitions
    /\ call.ret.m # OutgoingEdges(transitions, call.args[1])
    /\ \A k \in DOMAIN latest : GetNextState(transitions, k[1], k[2]).state = latest[k]
    /\ DOMAIN call.ret.m # DOMAIN transitions[call.args[1]]

\* ------------------------------------------------------------------ C12
\* the table after AddTransition was called for the first n elements of ts in turn
RECURSIVE OneByOne(_, _, _)
OneByOne(sm, ts, n) ==
    IF n = 0 THEN sm
    ELSE AddTransition(OneByOne(sm, ts, n - 1), ts[n].From, ts[n].Event, ts[n].To)

\* C12: AddTransitions(edges) leaves the table in exactly the state that calling
\* AddTransition once per element, in sequence order, produces: of two elements
\* with the same (From, Event) the later one's destination is in the table
\* afterwards, and the empty sequence leaves the table unchanged.
BatchIsSequence ==
    [][call'.op = "AddTransitions" =>
          LET ts == call'.args[1]
          IN  /\ transitions' = OneByOne(transitions, ts, Len(ts))
              /\ ts = <<>> => transitions' = transitions
              /\ \A i \in 1..Len(ts) :
                    (\A j \in (i + 1)..Len(ts) :
                        <<ts[j].From, ts[j].Event>> # <<ts[i].From, ts[i].Event>>)
                        => GetNextState(transitions', ts[i].From, ts[i].Event)
                               = [state |-> ts[i].To, ok |-> TRUE]]_vars

\* AddTransitions has just been called with two rules for the same key and
\* different destinations, and the table holds the destination of the second
BatchIsSequenceWitness ==
    /\ call.op = "AddTransitions"
    /\ Len(call.args[1]) = 2
    /\ call.args[1][1].From = call.args[1][2].From
    /\ call.args[1][1].Event = call.args[1][2].Event
    /\ call.args[1][1].To # call.args[1][2].To
    /\ GetNextState(transitions, call.args[1][2].From, call.args[1][2].Event)
           = [state |-> call.args[1][2].To, ok |-> TRUE]

\* ------------------------------------------------------------------ C13
\* the query methods of the machine
QueryOps == {"CanTransition", "Transition", "GetNextState", "GetValidEvents",
             "IsTerminalState", "GetAllStates", "GetTransitions",
             "ValidateTransitionPath"}

\* the states a call with arguments args names as a source
SourcesNamed(c) ==
    IF c.op \in {"CanTransition", "Transition", "GetNextState", "GetValidEvents",
                 "IsTerminalState", "GetTransitions", "ValidateTransitionPath"}
    THEN {c.args[1]}
    ELSE {}

\* C13: no query mutates the table: a call of CanTransition, Transition,
\* GetNextState, GetValidEvents, IsTerminalState, GetAllStates, GetTransitions
\* or ValidateTransitionPath leaves the registered edges unchanged, hit or miss;
\* a query for an unknown source makes no entry for it, so the state stays
\* absent from GetAllStates and stays terminal.
QueriesDoNotMutate ==
    [][(call = Idle /\ call'.op \in QueryOps) =>
          /\ Edges(transitions') = Edges(transitions)
          /\ DOMAIN transitions' = DOMAIN transitions
          /\ transitions' = transitions
          /\ \A s \in SourcesNamed(call') :
                (\A x \in Edges(transitions) : x[1] # s /\ x[3] # s)
                    => /\ \A r \in GetAllStates(transitions') : s \notin Elems(r)
                       /\ IsTerminalState(transitions', s)]_vars

\* a Transition call has just missed on a state that is in no edge of a table
\* that has edges; the state has no entry in the table and is terminal
QueriesDoNotMutateWitness ==
    /\ call.op = "Transition"
    /\ call.ret.err # nil
    /\ \A x \in Edges(transitions) : x[1] # call.args[1] /\ x[3] # call.args[1]
    /\ Edges(transitions) # {}
    /\ call.args[1] \notin DOMAIN transitions
    /\ IsTerminalState(transitions, call.args[1])

\* ------------------------------------------------------------------ C15
\* C15: empty path identity: for every table and every state s, registered or
\* not, terminal or not, ValidateTransitionPath(s, []) returns s with no error.
EmptyPathIdentity ==
    (call.op = "ValidateTransitionPath" /\ call.args[2] = <<>>) =>
        call.ret = [state |-> call.args[1], err |-> nil]

\* ValidateTransitionPath has just been called with no events from a state that
\* is in no edge, on a table in which another state is not terminal
EmptyPathWitness ==
    /\ call.op = "ValidateTransitionPath"
    /\ call.args[2] = <<>>
    /\ call.args[1] # Zero
    /\ \A x \in Edges(transitions) : x[1] # call.args[1] /\ x[3] # call.args[1]
    /\ \E s \in States : ~IsTerminalState(transitions, s)

\* ------------------------------------------------------------------ C20
\* the (state, event) keys that have an edge
Keys(sm) == {k \in States \X Events : CanTransition(sm, k[1], k[2])}

\* C20: edges are never removed: over every step, a pair with CanTransition
\* true keeps it true (only its destination can change), so the set of
\* registered keys only grows, and a state that is not terminal never becomes
\* terminal again.
EdgesNeverRemoved ==
    [][/\ \A s \in States, e \in Events :
             CanTransition(transitions, s, e) => CanTransition(transitions', s, e)
       /\ Keys(transitions) \subseteq Keys(transitions')
       /\ \A s \in States :
             ~IsTerminalState(transitions, s) => ~IsTerminalState(transitions', s)]_vars

\* AddTransition has just changed the destination of a key that was registered
\* before, and has registered that key with another destination
EdgesNeverRemovedWitness ==
    /\ call.op = "AddTransition"
    /\ \E t \in supplied :
          /\ t.From = call.args[1]
          /\ t.Event = call.args[2]
          /\ t.To # call.args[3]
    /\ GetNextState(transitions, call.args[1], call.args[2])
           = [state |-> call.args[3], ok |-> TRUE]
    /\ Cardinality(Keys(transitions)) >= 2
    /\ ~IsTerminalState(transitions, call.args[1])

\* ------------------------------------------------- the example workflows
\* {From: f, Event: e, To: t}
Rule(f, e, t) == [From |-> f, Event |-> e, To |-> t]
\* all event sequences of at most n events of es
PathsOver(es, n) == UNION {[1..k -> es] : k \in 0..n}

\* the caller's query call op(args) returns ret
Query(op, args, ret) ==
    /\ call' = Called(op, args, ret)
    /\ UNCHANGED <<transitions, supplied, latest, entity>>

\* ------------------------------------------------------------ order workflow
OrderStates == {"Pending", "Processing", "Shipped", "Delivered", "Cancelled", "Refunded"}
OrderEvents == {"Confirm", "Ship", "Deliver", "Cancel", "Refund"}

\* faulty variant: a shipped order can still be cancelled
OrderRules_CancelShipped ==
    <<Rule("Pending", "Confirm", "Processing"),
      Rule("Processing", "Ship", "Shipped"),
      Rule("Shipped", "Deliver", "Delivered"),
      Rule("Pending", "Cancel", "Cancelled"),
      Rule("Processing", "Cancel", "Cancelled"),
      Rule("Shipped", "Cancel", "Cancelled"),
      Rule("Delivered", "Refund", "Refunded"),
      Rule("Cancelled", "Refund", "Refunded")>>

\* the slice NewOrderStateMachine passes to AddTransitions
OrderRules ==
    <<Rule("Pending", "Confirm", "Processing"),
      Rule("Processing", "Ship", "Shipped"),
      Rule("Shipped", "Deliver", "Delivered"),
      Rule("Pending", "Cancel", "Cancelled"),
      Rule("Processing", "Cancel", "Cancelled"),
      Rule("Delivered", "Refund", "Refunded"),
      Rule("Cancelled", "Refund", "Refunded")>>

NewOrderStateMachine == AddTransitions(NewStateMachine, OrderRules)

\* the state after a constructor built the table from rules
Built(sm, rules, constructor) ==
    /\ transitions = sm
    /\ call = Called(constructor, <<>>, <<>>)
    /\ supplied = Elems(rules)
    /\ latest = Latest(EmptyMap, rules)

InitOrders ==
    /\ Built(NewOrderStateMachine, OrderRules, "NewOrderStateMachine")
    /\ entity = NoEntity

OrderTransition ==
    /\ call = Idle
    /\ \E from \in OrderStates, event \in OrderEvents :
           Query("Transition", <<from, event>>, Transition(transitions, from, event))

OrderValidateTransitionPath ==
    /\ call = Idle
    /\ \E start \in OrderStates, events \in PathsOver(OrderEvents, MaxPathLen) :
           Query("ValidateTransitionPath", <<start, events>>,
                 ValidateTransitionPath(transitions, start, events))

NextOrders ==
    \/ OrderTransition
    \/ OrderValidateTransitionPath
    \/ Return

\* callers querying the table of NewOrderStateMachine
SpecOrders == InitOrders /\ [][NextOrders]_vars

\* ------------------------------------------------------------------ C17
\* C17: order flow: on the table of NewOrderStateMachine, Transition(Pending,
\* Confirm) returns Processing, Transition(Shipped, Cancel) fails with the
\* invalid-transition error for (Shipped, Cancel), and ValidateTransitionPath(
\* Pending, [Confirm, Ship, Deliver]) returns Delivered with no error.
OrderFlow ==
    /\ (call.op = "Transition" /\ call.args = <<"Pending", "Confirm">>)
          => call.ret = [state |-> "Processing", err |-> nil]
    /\ (call.op = "Transition" /\ call.args = <<"Shipped", "Cancel">>)
          => /\ call.ret.err # nil
             /\ call.ret.err.format =
                    "invalid transition: cannot process event '%s' from state '%s'"
             /\ call.ret.err.args = <<"Cancel", "Shipped">>
    /\ (call.op = "ValidateTransitionPath"
            /\ call.args = <<"Pending", <<"Confirm", "Ship", "Deliver">>>>)
          => call.ret = [state |-> "Delivered", err |-> nil]
    /\ Transition(transitions, "Pending", "Confirm").state = "Processing"
    /\ ~CanTransition(transitions, "Shipped", "Cancel")

\* ValidateTransitionPath(Pending, [Confirm, Ship, Deliver]) has just returned
\* Delivered on the order table
OrderFlowWitness ==
    /\ call.op = "ValidateTransitionPath"
    /\ call.args = <<"Pending", <<"Confirm", "Ship", "Deliver">>>>
    /\ call.ret.state = "Delivered"
    /\ call.ret.err = nil

\* ------------------------------------------------------------ order service
\* what a service appends to the log of its entity: the event, the state the
\* entity was in, the error returned and the state the entity is in afterwards
Processed(event, from, err, state) ==
    [event |-> event, from |-> from, err |-> err, state |-> state]

\* faulty variant: order.State is assigned before the error is looked at
TransitionOrder_AssignsFirst(sm, order, event) ==
    LET r == Transition(sm, order.State, event)
    IN  [order |-> [order EXCEPT !.State = r.state], err |-> r.err]

\* OrderService.TransitionOrder: the order afterwards and the error returned
TransitionOrder(sm, order, event) ==
    LET r == Transition(sm, order.State, event)
    IN  IF r.err # nil
        THEN [order |-> order, err |-> r.err]
        ELSE [order |-> [order EXCEPT !.State = r.state], err |-> nil]

InitOrderService ==
    /\ Built(NewOrderStateMachine, OrderRules, "NewOrderService")
    /\ entity = [State |-> "Pending", log |-> <<>>]

CallTransitionOrder ==
    /\ call = Idle
    /\ Len(entity.log) < MaxEvents
    /\ \E event \in OrderEvents :
          LET r == TransitionOrder(transitions, entity, event)
          IN  /\ entity' = [r.order EXCEPT
                               !.log = Append(entity.log,
                                              Processed(event, entity.State, r.err,
                                                        r.order.State))]
              /\ call' = Called("TransitionOrder", <<event>>, r.err)
              /\ UNCHANGED <<transitions, supplied, latest>>

NextOrderService ==
    \/ CallTransitionOrder
    \/ Return

\* an OrderService processing events for one order that starts in Pending
SpecOrderService == InitOrderService /\ [][NextOrderService]_vars

\* ------------------------------------------------------------------ C19
\* the events of a log, in order
EventsOf(log) == [i \in 1..Len(log) |-> log[i].event]

\* C19: TransitionOrder(order, event) changes order.State only on a valid
\* transition: when the table has an edge for (order.State, event) the state
\* becomes its destination and nil is returned, otherwise the error is returned
\* and order.State is unchanged.  Hence for an order starting in Pending the
\* events Confirm, Ship, Cancel, Deliver end in Delivered, only the Cancel step
\* failing and leaving the order in Shipped.
TransitionOrderValid ==
    /\ \A i \in 1..Len(entity.log) :
          LET p == entity.log[i]
          IN  /\ p.from = IF i = 1 THEN "Pending" ELSE entity.log[i - 1].state
              /\ IF CanTransition(transitions, p.from, p.event)
                 THEN /\ p.err = nil
                      /\ p.state = GetNextState(transitions, p.from, p.event).state
                 ELSE /\ p.err # nil
                      /\ p.err = Transition(transitions, p.from, p.event).err
                      /\ p.state = p.from
    /\ entity.State = IF entity.log = <<>> THEN "Pending"
                      ELSE entity.log[Len(entity.log)].state
    /\ EventsOf(entity.log) = <<"Confirm", "Ship", "Cancel", "Deliver">>
          => /\ entity.State = "Delivered"
             /\ entity.log[1].err = nil
             /\ entity.log[2].err = nil
             /\ entity.log[3].err # nil
             /\ entity.log[3].state = "Shipped"
             /\ entity.log[4].err = nil

\* the service has processed Confirm, Ship, Cancel and Deliver for the order
TransitionOrderWitness ==
    /\ call.op = "TransitionOrder"
    /\ EventsOf(entity.log) = <<"Confirm", "Ship", "Cancel", "Deliver">>
    /\ entity.State = "Delivered"

\* --------------------------------------------------------- document workflow
DocumentStates ==
    {"Draft", "Submitted", "Reviewing", "Approved", "Rejected", "Published", "Archived"}
DocumentEvents == {"Submit", "Review", "Approve", "Reject", "Publish", "Archive", "Revise"}

\* faulty variant: a draft can also be archived
DocumentRules_ArchiveDraft ==
    << Rule("Draft", "Submit", "Submitted"),
       Rule("Draft", "Archive", "Archived"),
       Rule("Submitted", "Review", "Reviewing"),
       Rule("Reviewing", "Approve", "Approved"),
       Rule("Approved", "Publish", "Published"),
       Rule("Reviewing", "Reject", "Rejected"),
       Rule("Rejected", "Revise", "Draft"),
       Rule("Published", "Archive", "Archived") >>

\* the slice NewDocumentStateMachine passes to AddTransitions
DocumentRules ==
    << Rule("Draft", "Submit", "Submitted"),
       Rule("Submitted", "Review", "Reviewing"),
       Rule("Reviewing", "Approve", "Approved"),
       Rule("Approved", "Publish", "Published"),
       Rule("Reviewing", "Reject", "Rejected"),
       Rule("Rejected", "Revise", "Draft"),
       Rule("Published", "Archive", "Archived") >>

NewDocumentStateMachine == AddTransitions(NewStateMachine, DocumentRules)

\* the path ExampleDocumentStateMachine validates
DocumentPath == <<"Submit", "Review", "Approve", "Publish">>

InitDocuments ==
    /\ Built(NewDocumentStateMachine, DocumentRules, "NewDocumentStateMachine")
    /\ entity = NoEntity

\* DocumentService.GetAvailableActions
DocumentGetValidEvents ==
    /\ call = Idle
    /\ \E from \in DocumentStates :
           \E ret \in GetValidEvents(transitions, from) :
               Query("GetValidEvents", <<from>>, ret)

DocumentIsTerminalState ==
    /\ call = Idle
    /\ \E state \in DocumentStates :
           Query("IsTerminalState", <<state>>, IsTerminalState(transitions, state))

DocumentValidateTransitionPath ==
    /\ call = Idle
    /\ \E start \in DocumentStates, events \in PathsOver(DocumentEvents, Len(DocumentPath)) :
           Query("ValidateTransitionPath", <<start, events>>,
                 ValidateTransitionPath(transitions, start, events))

NextDocuments ==
    \/ DocumentGetValidEvents
    \/ DocumentIsTerminalState
    \/ DocumentValidateTransitionPath
    \/ Return

\* callers querying the table of NewDocumentStateMachine
SpecDocuments == InitDocuments /\ [][NextDocuments]_vars

\* ------------------------------------------------------------------ C18
\* C18: on the table built by NewDocumentStateMachine, GetValidEvents(Draft)
\* holds exactly the event Submit, IsTerminalState(Archived) is true, and
\* ValidateTransitionPath(Draft, [Submit, Review, Approve, Publish]) returns
\* Published and no error.
DocumentFlow ==
    /\ transitions = NewDocumentStateMachine
    /\ (call.op = "GetValidEvents" /\ call.args = <<"Draft">>)
          => Elems(call.ret) = {"Submit"}
    /\ (call.op = "IsTerminalState" /\ call.args = <<"Archived">>)
          => call.ret = TRUE
    /\ (call.op = "ValidateTransitionPath" /\ call.args = <<"Draft", DocumentPath>>)
          => call.ret = [state |-> "Published", err |-> nil]

\* the example's path has been validated from Draft
DocumentFlowWitness ==
    /\ call.op = "ValidateTransitionPath"
    /\ call.args = <<"Draft", DocumentPath>>
    /\ call.ret.state = "Published"
    /\ call.ret.err = nil

\* -------------------------------------------------------------- user signup
UserStates ==
    {"Initial", "EmailPendingVerification", "EmailVerified", "SignUpComplete",
     "SignupRejected"}
UserEvents == {"SubmitSignup", "ClickVerificationLink", "SignUpFailed", "CompleteProfile"}

\* faulty variant: the profile can be completed straight from Initial
UserRules_SkipAllowed ==
    << Rule("Initial", "SubmitSignup", "EmailPendingVerification"),
       Rule("Initial", "SignUpFailed", "SignupRejected"),
       Rule("Initial", "CompleteProfile", "SignUpComplete"),
       Rule("EmailPendingVerification", "ClickVerificationLink", "EmailVerified"),
       Rule("EmailPendingVerification", "SignUpFailed", "SignupRejected"),
       Rule("EmailVerified", "CompleteProfile", "SignUpComplete"),
       Rule("EmailVerified", "SignUpFailed", "SignupRejected") >>

\* the slice NewUserStateMachine passes to AddTransitions
UserRules ==
    << Rule("Initial", "SubmitSignup", "EmailPendingVerification"),
       Rule("Initial", "SignUpFailed", "SignupRejected"),
       Rule("EmailPendingVerification", "ClickVerificationLink", "EmailVerified"),
       Rule("EmailPendingVerification", "SignUpFailed", "SignupRejected"),
       Rule("EmailVerified", "CompleteProfile", "SignUpComplete"),
       Rule("EmailVerified", "SignUpFailed", "SignupRejected") >>

NewUserStateMachine == AddTransitions(NewStateMachine, UserRules)

\* what a call of the UserRepository can return as its error: the repository
\* is an interface, its failures are inputs of the service
RepositoryErrors == {nil, Errorf("repository", <<>>)}

\* UserService.ProcessEvent: the stored user afterwards and the error returned;
\* getErr is what repo.GetByID returns, updErr what repo.UpdateState returns
ProcessEvent(sm, user, event, getErr, updErr) ==
    IF getErr # nil
    THEN [user |-> user, err |-> Errorf("failed to get user: %w", <<getErr>>)]
    ELSE LET r == Transition(sm, user.State, event)
         IN  IF r.err # nil
             THEN [user |-> user,
                   err |-> Errorf("invalid state transition: %w", <<r.err>>)]
             ELSE IF updErr # nil
             THEN [user |-> user,
                   err |-> Errorf("failed to update user state: %w", <<updErr>>)]
             ELSE [user |-> [user EXCEPT !.State = r.state], err |-> nil]

InitUsers ==
    /\ Built(NewUserStateMachine, UserRules, "NewUserService")
    /\ entity = [State |-> "Initial", log |-> <<>>]

CallProcessEvent ==
    /\ call = Idle
    /\ Len(entity.log) < MaxEvents
    /\ \E event \in UserEvents, getErr \in RepositoryErrors, updErr \in RepositoryErrors :
          LET r == ProcessEvent(transitions, entity, event, getErr, updErr)
          IN  /\ entity' = [r.user EXCEPT
                               !.log = Append(entity.log,
                                              Processed(event, entity.State, r.err,
                                                        r.user.State))]
              /\ call' = Called("ProcessEvent", <<event>>, r.err)
              /\ UNCHANGED <<transitions, supplied, latest>>

UserTransition ==
    /\ call = Idle
    /\ \E from \in UserStates, event \in UserEvents :
           Query("Transition", <<from, event>>, Transition(transitions, from, event))

NextUsers ==
    \/ CallProcessEvent
    \/ UserTransition
    \/ Return

\* a UserService processing events for one user that starts in Initial, and
\* callers querying its table
SpecUsers == InitUsers /\ [][NextUsers]_vars

\* ------------------------------------------------------------------ C16
\* the states the entity has been in, in order
StatesOf(e) == <<"Initial">> \o [i \in 1..Len(e.log) |-> e.log[i].state]

\* C16: on the table of NewUserStateMachine a user that starts in Initial and
\* changes state only to the result of a successful Transition is in
\* SignUpComplete only after having been in EmailPendingVerification and then
\* in EmailVerified; Transition(Initial, CompleteProfile) and
\* Transition(SignUpComplete, ClickVerificationLink) fail.
SignupNoSkipping ==
    /\ entity.State = StatesOf(entity)[Len(entity.log) + 1]
    /\ entity.State = "SignUpComplete"
          => \E i, j \in 1..Len(entity.log) :
                /\ i < j
                /\ StatesOf(entity)[i] = "EmailPendingVerification"
                /\ StatesOf(entity)[j] = "EmailVerified"
    /\ (call.op = "Transition"
          /\ call.args \in {<<"Initial", "CompleteProfile">>,
                            <<"SignUpComplete", "ClickVerificationLink">>})
          => /\ call.ret.err # nil
             /\ call.ret.state = Zero

\* a user has completed the signup
SignupNoSkippingWitness ==
    /\ call.op = "ProcessEvent"
    /\ call.args = <<"CompleteProfile">>
    /\ call.ret = nil
    /\ entity.State = "SignUpComplete"

\* ------------------------------------------------------ read-only sharing
\* Several goroutines call the query methods of one table that was built
\* before they started.  Here `call` holds one call record per goroutine.  A
\* method that does one lookup in the table is one step; a call of
\* ValidateTransitionPath takes one step per iteration of its loop, and
\* between two of them its record holds the loop's local variables.
Readers == {"r1", "r2"}

\* the local variables of ValidateTransitionPath before iteration i (0-based)
Running(i, currentState) == [i |-> i, currentState |-> currentState]
IsRunning(c) == c.op = "ValidateTransitionPath" /\ "i" \in DOMAIN c.ret
Completed(c) == c # Idle /\ ~IsRunning(c)

\* one iteration of the loop of ValidateTransitionPath for the call record c,
\* or its `return currentState, nil` when the range is exhausted
LoopIteration(sm, c) ==
    LET events == c.args[2]
        i == c.ret.i
        currentState == c.ret.currentState
    IN  IF i >= Len(events)
        THEN [c EXCEPT !.ret = [state |-> currentState, err |-> nil]]
        ELSE LET r == Transition(sm, currentState, events[i + 1])
             IN  IF r.err # nil
                 THEN [c EXCEPT !.ret =
                          [state |-> currentState,
                           err |-> Errorf("invalid path at step %d: %w", <<i + 1, r.err>>)]]
                 ELSE [c EXCEPT !.ret = Running(i + 1, r.state)]

\* faulty variant: currentState is a field of the machine, not a local
\* variable, so the assignment is seen by every call that is in its loop
PathStep_SharedCurrentState(sm, calls, r) ==
    LET c == LoopIteration(sm, calls[r])
    IN  [q \in DOMAIN calls |->
            IF q = r THEN c
            ELSE IF IsRunning(calls[q]) /\ IsRunning(c)
            THEN [calls[q] EXCEPT !.ret.currentState = c.ret.currentState]
            ELSE calls[q]]

\* the call records after goroutine r has taken one step of its
\* ValidateTransitionPath call
PathStep(sm, calls, r) == [calls EXCEPT ![r] = LoopIteration(sm, calls[r])]

InitShared ==
    /\ transitions = NewUserStateMachine
    /\ supplied = Elems(UserRules)
    /\ latest = Latest(EmptyMap, UserRules)
    /\ entity = NoEntity
    /\ call = [r \in Readers |-> Idle]

\* the one-lookup query call op(args) of goroutine r returns ret
SharedQuery(r, op, args, ret) ==
    /\ call' = [call EXCEPT ![r] = Called(op, args, ret)]
    /\ UNCHANGED <<transitions, supplied, latest, entity>>

SharedCanTransition ==
    \E r \in Readers :
        /\ call[r] = Idle
        /\ \E from \in UserStates, event \in UserEvents :
               SharedQuery(r, "CanTransition", <<from, event>>,
                           CanTransition(transitions, from, event))

SharedTransition ==
    \E r \in Readers :
        /\ call[r] = Idle
        /\ \E from \in UserStates, event \in UserEvents :
               SharedQuery(r, "Transition", <<from, event>>,
                           Transition(transitions, from, event))

SharedGetNextState ==
    \E r \in Readers :
        /\ call[r] = Idle
        /\ \E from \in UserStates, event \in UserEvents :
               SharedQuery(r, "GetNextState", <<from, event>>,
                           GetNextState(transitions, from, event))

SharedGetValidEvents ==
    \E r \in Readers :
        /\ call[r] = Idle
        /\ \E from \in UserStates :
               \E ret \in GetValidEvents(transitions, from) :
                   SharedQuery(r, "GetValidEvents", <<from>>, ret)

SharedIsTerminalState ==
    \E r \in Readers :
        /\ call[r] = Idle
        /\ \E state \in UserStates :
               SharedQuery(r, "IsTerminalState", <<state>>, IsTerminalState(transitions, state))

SharedGetAllStates ==
    \E r \in Readers :
        /\ call[r] = Idle
        /\ \E ret \in GetAllStates(transitions) :
               SharedQuery(r, "GetAllStates", <<>>, ret)

SharedGetTransitions ==
    \E r \in Readers :
        /\ call[r] = Idle
        /\ \E from \in UserStates :
               SharedQuery(r, "GetTransitions", <<from>>, GetTransitions(transitions, from))

\* `currentState := start`
SharedValidateTransitionPathBegin ==
    \E r \in Readers :
        /\ call[r] = Idle
        /\ \E start \in UserStates, events \in PathsOver(UserEvents, MaxSharedPathLen) :
               SharedQuery(r, "ValidateTransitionPath", <<start, events>>, Running(0, start))

SharedValidateTransitionPathStep ==
    \E r \in Readers :
        /\ IsRunning(call[r])
        /\ call' = PathStep(transitions, call, r)
        /\ UNCHANGED <<transitions, supplied, latest, entity>>

SharedReturn ==
    \E r \in Readers :
        /\ Completed(call[r])
        /\ call' = [call EXCEPT ![r] = Idle]
        /\ UNCHANGED <<transitions, supplied, latest, entity>>

NextShared ==
    \/ SharedCanTransition
    \/ SharedTransition
    \/ SharedGetNextState
    \/ SharedGetValidEvents
    \/ SharedIsTerminalState
    \/ SharedGetAllStates
    \/ SharedGetTransitions
    \/ SharedValidateTransitionPathBegin
    \/ SharedValidateTransitionPathStep
    \/ SharedReturn

\* goroutines sharing the table of NewUserStateMachine read-only
SpecShared == InitShared /\ [][NextShared]_vars

\* ------------------------------------------------------------------ C14
\* what the call op(args) can return when it is executed alone on sm
Alone(sm, op, args) ==
    CASE op = "CanTransition" -> {CanTransition(sm, args[1], args[2])}
      [] op = "Transition" -> {Transition(sm, args[1], args[2])}
      [] op = "GetNextState" -> {GetNextState(sm, args[1], args[2])}
      [] op = "GetValidEvents" -> GetValidEvents(sm, args[1])
      [] op = "IsTerminalState" -> {IsTerminalState(sm, args[1])}
      [] op = "GetAllStates" -> GetAllStates(sm)
      [] op = "GetTransitions" -> {GetTransitions(sm, args[1])}
      [] op = "ValidateTransitionPath" -> {ValidateTransitionPath(sm, args[1], args[2])}

\* C14: when concurrent callers issue only queries against one fully built
\* table, under every interleaving of their steps (the loop iterations of
\* ValidateTransitionPath included) each call returns what it returns when
\* executed alone, and the table is never changed.
SharedReadsSafe ==
    /\ transitions = NewUserStateMachine
    /\ \A r \in Readers :
          Completed(call[r]) => call[r].ret \in Alone(transitions, call[r].op, call[r].args)

\* a ValidateTransitionPath call has completed a path of two events while the
\* other goroutine was inside the loop of its own call from another start
SharedReadsWitness ==
    \E r, q \in Readers :
        /\ r # q
        /\ Completed(call[r])
        /\ call[r].op = "ValidateTransitionPath"
        /\ Len(call[r].args[2]) >= 2
        /\ call[r].ret.err = nil
        /\ IsRunning(call[q])
        /\ call[q].ret.i >= 1
        /\ call[q].args[1] # call[r].args[1]

\* ------------------------------------------------------------------ C21
\* the states every slice GetAllStates() can return on sm holds
AlwaysListed(sm) ==
    LET slices == GetAllStates(sm)
    IN  {s \in States : \A r \in slices : s \in Elems(r)}

\* C21: closure under transition: in every reachable table, when
\* Transition(s, e) succeeds with destination t, both s and t are in
\* GetAllStates(); hence the state a successful ValidateTransitionPath with at
\* least one event returns is in GetAllStates().
ClosedUnderTransition ==
    /\ (call.op = "Transition" /\ call.ret.err = nil)
          => {call.args[1], call.ret.state} \subseteq AlwaysListed(transitions)
    /\ (call.op = "ValidateTransitionPath" /\ call.ret.err = nil /\ call.args[2] # <<>>)
          => call.ret.state \in AlwaysListed(transitions)

\* a path of two events has been validated and has ended in a state that is
\* the source of no edge
ClosedUnderTransitionWitness ==
    /\ call.op = "ValidateTransitionPath"
    /\ Len(call.args[2]) >= 2
    /\ call.ret.err = nil
    /\ call.ret.state # call.args[1]
    /\ call.ret.state \notin DOMAIN transitions

\* ------------------------------------------------------------------ C22
\* the first n events of a path, and the events after them
Prefix(events, n) == SubSeq(events, 1, n)
Suffix(events, n) == SubSeq(events, n + 1, Len(events))

\* C22: path validation composes: when ValidateTransitionPath(s, p) succeeds
\* with state m, ValidateTransitionPath(s, p ++ q) has the outcome of
\* ValidateTransitionPath(m, q): the same state, success together, and on
\* failure a step number larger by len(p); when ValidateTransitionPath(s, p)
\* fails, ValidateTransitionPath(s, p ++ q) fails with the same step number and
\* state.  ValidateTransitionPath(s, [e]) succeeds iff Transition(s, e) does,
\* with the same destination.
PathsCompose ==
    call.op = "ValidateTransitionPath" =>
        LET s      == call.args[1]
            events == call.args[2]
            whole  == call.ret
        IN  /\ \A n \in 0..Len(events) :
                  LET p  == Prefix(events, n)
                      q  == Suffix(events, n)
                      rp == ValidateTransitionPath(transitions, s, p)
                      rq == ValidateTransitionPath(transitions, rp.state, q)
                  IN  IF rp.err = nil
                      THEN /\ whole.state = rq.state
                           /\ (whole.err = nil) <=> (rq.err = nil)
                           /\ rq.err # nil =>
                                 /\ whole.err.args[1] = rq.err.args[1] + Len(p)
                                 /\ whole.err.args[2] = rq.err.args[2]
                      ELSE /\ whole.err # nil
                           /\ whole.err.args[1] = rp.err.args[1]
                           /\ whole.state = rp.state
            /\ Len(events) = 1 =>
                  LET r == Transition(transitions, s, events[1])
                  IN  /\ (whole.err = nil) <=> (r.err = nil)
                      /\ r.err = nil => whole.state = r.state

\* a path of three events has failed at its second step, after a first step
\* that changed the state
PathsComposeWitness ==
    /\ call.op = "ValidateTransitionPath"
    /\ Len(call.args[2]) >= 3
    /\ call.ret.err # nil
    /\ call.ret.err.args[1] = 2
    /\ call.ret.state # call.args[1]

\* ------------------------------------------------- two machines built alike
\* Two machines, each made by its own NewStateMachine call.  Here
\* `transitions` holds the table of each machine and `supplied` the rules
\* passed to AddTransition on each, in call order.  The first machine is
\* built by arbitrary calls, the second by the same calls in the same order.
Machines == {"sm1", "sm2"}

\* faulty variant: every machine refers to one and the same map
Register_SharedTable(tables, m, from, event, to) ==
    [x \in DOMAIN tables |-> AddTransition(tables[m], from, event, to)]

\* the tables after sm.AddTransition(from, event, to) on the machine m
Register(tables, m, from, event, to) ==
    [tables EXCEPT ![m] = AddTransition(tables[m], from, event, to)]

InitTwins ==
    /\ transitions = [m \in Machines |-> NewStateMachine]
    /\ supplied = [m \in Machines |-> <<>>]
    /\ call = Called("NewStateMachine", <<>>, <<>>)
    /\ latest = EmptyMap
    /\ entity = NoEntity

\* machine m is registered the rule t
Registers1(m, t) ==
    /\ transitions' = Register(transitions, m, t.From, t.Event, t.To)
    /\ supplied' = [supplied EXCEPT ![m] = Append(@, t)]
    /\ call' = Called("AddTransition", <<m, t.From, t.Event, t.To>>, <<>>)
    /\ UNCHANGED <<latest, entity>>

FirstAddTransition ==
    /\ Len(supplied["sm1"]) < MaxRegistrations
    /\ \E t \in TransitionRules : Registers1("sm1", t)

\* the second machine is given the next call the first one was given
SecondAddTransition ==
    /\ Len(supplied["sm2"]) < Len(supplied["sm1"])
    /\ Registers1("sm2", supplied["sm1"][Len(supplied["sm2"]) + 1])

NextTwins ==
    \/ FirstAddTransition
    \/ SecondAddTransition

SpecTwins == InitTwins /\ [][NextTwins]_vars

\* ------------------------------------------------------------------ C23
KeyOf(t) == <<t.From, t.Event>>
Put(sm, t) == AddTransition(sm, t.From, t.Event, t.To)

\* C23: registration order matters only for equal keys: AddTransition calls
\* with different (from, event) keys commute (also with the same from, and with a
\* from unknown before), registering a triple twice gives the table of
\* registering it once, and tables built from the same sequence of
\* registrations answer every query identically (a slice-returning query: the
\* same slices are possible).
RegistrationOrder ==
    [][\A m \in Machines :
          /\ supplied'[m] # supplied[m] =>
                LET t == supplied'[m][Len(supplied'[m])]
                IN  /\ Put(transitions'[m], t) = transitions'[m]
                    /\ \A u \in TransitionRules :
                          KeyOf(u) # KeyOf(t)
                             => Put(transitions'[m], u) = Put(Put(transitions[m], u), t)
          /\ LET answers == Answers(transitions'[m])
             IN  /\ answers = Answers(OneByOne(NewStateMachine, supplied'[m],
                                               Len(supplied'[m])))
                 /\ \A n \in Machines \ {m} :
                       supplied'[m] = supplied'[n] => answers = Answers(transitions'[n])]_vars

\* both machines have been given the same calls, the first two of them for one
\* source that was unknown before, with different events
RegistrationOrderWitness ==
    /\ call.op = "AddTransition"
    /\ supplied["sm1"] = supplied["sm2"]
    /\ Len(supplied["sm1"]) >= 2
    /\ supplied["sm1"][1].From = supplied["sm1"][2].From
    /\ supplied["sm1"][1].Event # supplied["sm1"][2].Event
    /\ transitions["sm1"] = transitions["sm2"]

====
